---- MODULE Spec2Model ----
(***************************************************************************)
(* A model of "Straightforward CapsNET Implementation.ipynb": the helper   *)
(* functions index_to_one_hot, squash_vector and softmax, the routing      *)
(* loop of CapsuleLayer.forward, MarginLoss.forward and the training       *)
(* script.                                                                 *)
(*                                                                         *)
(* Tensor entries are exact rationals <<n, d>> (d > 0, lowest terms); the  *)
(* value of a division by zero is NaN == <<0, 0>>, which every operation    *)
(* propagates.  Rounding of float32 is not modelled.                        *)
(***************************************************************************)
EXTENDS Integers, Sequences, FiniteSets, TLC

VARIABLES
    oh_pc, oh_index, oh_classes, oh_out,         \* a call of index_to_one_hot
    sq_pc, sq_tensor, sq_out,                    \* a call of squash_vector
    sm_pc, sm_input, sm_dim, sm_out,             \* a call of softmax
    rt_pc, rt_layer, rt_x,                       \* a call of CapsuleLayer.forward
    rt_priors, rt_logits, rt_probs, rt_outputs, rt_i,
    rt_history,                                  \* what each iteration computed
    ml_pc, ml_args, ml_mem, ml_loss,             \* a call of MarginLoss.forward
    ts_pc, ts_loaders, ts_e, ts_idx,             \* the training script
    ts_target, ts_classes, ts_correct, ts_test_loss,
    ts_out, ts_raised,                           \* the lines printed, the exception
    ts_truth                                     \* the right predictions of each test pass

oh_vars == <<oh_pc, oh_index, oh_classes, oh_out>>
sq_vars == <<sq_pc, sq_tensor, sq_out>>

sm_vars == <<sm_pc, sm_input, sm_dim, sm_out>>

rt_vars == <<rt_pc, rt_layer, rt_x, rt_priors, rt_logits, rt_probs, rt_outputs,
             rt_i, rt_history>>

ml_vars == <<ml_pc, ml_args, ml_mem, ml_loss>>

ts_vars == <<ts_pc, ts_loaders, ts_e, ts_idx, ts_target, ts_classes, ts_correct,
             ts_test_loss, ts_out, ts_raised, ts_truth>>

vars == <<oh_vars, sq_vars, sm_vars, rt_vars, ml_vars, ts_vars>>

\* The variables of the other parts, which a part leaves alone.
oh_others == <<sq_vars, sm_vars, rt_vars, ml_vars, ts_vars>>
sq_others == <<oh_vars, sm_vars, rt_vars, ml_vars, ts_vars>>
sm_others == <<oh_vars, sq_vars, rt_vars, ml_vars, ts_vars>>
rt_others == <<oh_vars, sq_vars, sm_vars, ml_vars, ts_vars>>
ml_others == <<oh_vars, sq_vars, sm_vars, rt_vars, ts_vars>>
ts_others == <<oh_vars, sq_vars, sm_vars, rt_vars, ml_vars>>

\* The state of a part of the program that a specification does not run.
OneHotOff ==
    /\ oh_pc = "off" /\ oh_index = <<>> /\ oh_classes = 0 /\ oh_out = <<>>

SquashOff ==
    /\ sq_pc = "off" /\ sq_tensor = <<>> /\ sq_out = <<>>

SoftmaxOff ==
    /\ sm_pc = "off" /\ sm_input = <<>> /\ sm_dim = 0 /\ sm_out = <<>>

RouteOff ==
    /\ rt_pc = "off" /\ rt_layer = <<>> /\ rt_x = <<>> /\ rt_priors = <<>>
    /\ rt_logits = <<>> /\ rt_probs = <<>> /\ rt_outputs = <<>> /\ rt_i = 0
    /\ rt_history = <<>>

LossOff ==
    /\ ml_pc = "off" /\ ml_args = <<>> /\ ml_mem = <<>> /\ ml_loss = <<>>

ScriptOff ==
    /\ ts_pc = "off" /\ ts_loaders = <<>> /\ ts_e = 0 /\ ts_idx = 0
    /\ ts_target = <<>> /\ ts_classes = <<>> /\ ts_correct = 0
    /\ ts_test_loss = "unbound" /\ ts_out = <<>> /\ ts_raised = "none"
    /\ ts_truth = <<>>

(***************************************************************************)
(* Rational arithmetic (the tensor library's scalar arithmetic).           *)
(***************************************************************************)
Abs(n) == IF n < 0 THEN -n ELSE n

RECURSIVE GCD(_, _)
GCD(a, b) == IF b = 0 THEN a ELSE GCD(b, a % b)

NaN == <<0, 0>>

IsNaN(x) == x[2] = 0

\* n / d in lowest terms with a positive denominator; 0 / 0 is NaN.  In the
\* states reached a zero denominator only ever meets a zero numerator.
Q(n, d) ==
    IF d = 0 THEN NaN
    ELSE LET g == GCD(Abs(n), Abs(d))
             s == IF d < 0 THEN -1 ELSE 1
         IN  <<(s * n) \div g, (s * d) \div g>>

QInt(n) == <<n, 1>>

QAdd(a, b) ==
    IF IsNaN(a) \/ IsNaN(b) THEN NaN
    ELSE LET g == GCD(a[2], b[2])
         IN  Q(a[1] * (b[2] \div g) + b[1] * (a[2] \div g), (a[2] \div g) * b[2])

QNeg(a) == <<-a[1], a[2]>>

QSub(a, b) == QAdd(a, QNeg(b))

QMul(a, b) ==
    IF IsNaN(a) \/ IsNaN(b) THEN NaN
    ELSE LET g1 == GCD(Abs(a[1]), b[2])
             g2 == GCD(Abs(b[1]), a[2])
             h1 == IF g1 = 0 THEN 1 ELSE g1
             h2 == IF g2 = 0 THEN 1 ELSE g2
         IN  Q((a[1] \div h1) * (b[1] \div h2), (a[2] \div h2) * (b[2] \div h1))

QDiv(a, b) ==
    IF IsNaN(a) \/ IsNaN(b) \/ b[1] = 0 THEN NaN
    ELSE QMul(a, Q(b[2], b[1]))

\* Comparisons with NaN are false.
QLess(a, b) == ~IsNaN(a) /\ ~IsNaN(b) /\ a[1] * b[2] < b[1] * a[2]

QLeq(a, b) == ~IsNaN(a) /\ ~IsNaN(b) /\ a[1] * b[2] <= b[1] * a[2]

QMax(a, b) == IF QLess(a, b) THEN b ELSE a

\* The integer square root of a perfect square (the tensors the model draws
\* have rational lengths, so torch.sqrt is exact on them).
Isqrt(n) == CHOOSE r \in 0..n : r * r = n

QSqrt(a) == IF IsNaN(a) THEN NaN ELSE <<Isqrt(a[1]), Isqrt(a[2])>>

\* Tensor.long(): truncation toward zero.
Long(a) == IF a[1] >= 0 THEN a[1] \div a[2] ELSE -((-a[1]) \div a[2])

RECURSIVE QSum(_)
QSum(s) == IF s = <<>> THEN QInt(0) ELSE QAdd(s[1], QSum(Tail(s)))

(***************************************************************************)
(* Tensors: a size, a stride for every dimension and a storage.  Indices   *)
(* and dimensions are 0-based as in the source; sequences are 1-based.     *)
(***************************************************************************)
RECURSIVE Prod(_)
Prod(s) == IF s = <<>> THEN 1 ELSE s[1] * Prod(Tail(s))

Numel(size) == Prod(size)

\* The strides of a contiguous (row-major) tensor of this size.
ContiguousStride(size) ==
    [i \in 1..Len(size) |-> Prod(SubSeq(size, i + 1, Len(size)))]

RECURSIVE SumInts(_)
SumInts(s) == IF s = <<>> THEN 0 ELSE s[1] + SumInts(Tail(s))

\* The entry of t at a 0-based index.
At(t, idx) ==
    t.storage[1 + SumInts([i \in 1..Len(idx) |-> idx[i] * t.stride[i]])]

\* The index of the k-th entry (0-based) in row-major order.
Unravel(k, size) ==
    LET c == ContiguousStride(size)
    IN  [i \in 1..Len(size) |-> (k \div c[i]) % size[i]]

\* Every index of a tensor of this size.
Indices(size) == {Unravel(k, size) : k \in 0..(Numel(size) - 1)}

Swap(s, i, j) ==
    [k \in 1..Len(s) |-> IF k = i THEN s[j] ELSE IF k = j THEN s[i] ELSE s[k]]

\* Tensor.transpose(d0, d1): a view with the two dimensions exchanged.
transpose(t, d0, d1) ==
    [size |-> Swap(t.size, d0 + 1, d1 + 1),
     stride |-> Swap(t.stride, d0 + 1, d1 + 1),
     storage |-> t.storage]

\* Tensor.contiguous(): the same entries copied in row-major order.
contiguous(t) ==
    [size |-> t.size,
     stride |-> ContiguousStride(t.size),
     storage |-> [k \in 1..Numel(t.size) |-> At(t, Unravel(k - 1, t.size))]]

\* Tensor.view(*size) of a contiguous tensor with as many entries.
view(t, size) ==
    [size |-> size, stride |-> ContiguousStride(size), storage |-> t.storage]

\* Tensor.view(-1, cols): the first size is inferred.
view_rows(t, cols) == view(t, <<Numel(t.size) \div cols, cols>>)

\* The contiguous tensor of a size whose entry at idx is f[idx].
TensorOf(size, f) ==
    [size |-> size, stride |-> ContiguousStride(size),
     storage |-> [k \in 1..Numel(size) |-> f[Unravel(k - 1, size)]]]

\* The entries of t that share every index of idx except the one along dim.
Fiber(t, idx, dim) ==
    [j \in 1..t.size[dim + 1] |-> At(t, [idx EXCEPT ![dim + 1] = j - 1])]

\* Tensor.sum(dim, keepdim=True).
SumDim(t, dim) ==
    LET size == [t.size EXCEPT ![dim + 1] = 1]
    IN  TensorOf(size, [idx \in Indices(size) |-> QSum(Fiber(t, idx, dim))])

\* Elementwise operations on one tensor: t ** 2, c + t, c - t, t - c, c * t,
\* torch.sqrt(t) and relu(t).  g maps each entry of t to its image.
Entries(t) == {t.storage[k] : k \in 1..Len(t.storage)}

Pointwise(t, g) == TensorOf(t.size, [idx \in Indices(t.size) |-> g[At(t, idx)]])

Square(t) == Pointwise(t, [a \in Entries(t) |-> QMul(a, a)])

AddScalar(c, t) == Pointwise(t, [a \in Entries(t) |-> QAdd(c, a)])

ScalarSub(c, t) == Pointwise(t, [a \in Entries(t) |-> QSub(c, a)])

SubScalar(t, c) == Pointwise(t, [a \in Entries(t) |-> QSub(a, c)])

MulScalar(c, t) == Pointwise(t, [a \in Entries(t) |-> QMul(c, a)])

Sqrt(t) == Pointwise(t, [a \in Entries(t) |-> QSqrt(a)])

Relu(t) == Pointwise(t, [a \in Entries(t) |-> QMax(QInt(0), a)])

\* Elementwise operations on two tensors of the same rank: a * b, a + b and
\* a / b.  A dimension of size 1 is broadcast.
Clip(idx, size) == [i \in 1..Len(idx) |-> IF size[i] = 1 THEN 0 ELSE idx[i]]

BroadcastSize(a, b) ==
    [i \in 1..Len(a.size) |-> IF a.size[i] = 1 THEN b.size[i] ELSE a.size[i]]

Mul(a, b) ==
    TensorOf(BroadcastSize(a, b), [idx \in Indices(BroadcastSize(a, b)) |->
        QMul(At(a, Clip(idx, a.size)), At(b, Clip(idx, b.size)))])

Add(a, b) ==
    TensorOf(BroadcastSize(a, b), [idx \in Indices(BroadcastSize(a, b)) |->
        QAdd(At(a, Clip(idx, a.size)), At(b, Clip(idx, b.size)))])

Div(a, b) ==
    TensorOf(BroadcastSize(a, b), [idx \in Indices(BroadcastSize(a, b)) |->
        QDiv(At(a, Clip(idx, a.size)), At(b, Clip(idx, b.size)))])

\* t[..., None, ...]: a dimension of size 1 inserted at position d.
Unsqueeze(t, d) ==
    [size |-> SubSeq(t.size, 1, d) \o <<1>> \o SubSeq(t.size, d + 1, Len(t.size)),
     stride |-> SubSeq(t.stride, 1, d) \o <<0>> \o SubSeq(t.stride, d + 1, Len(t.stride)),
     storage |-> t.storage]

\* a @ b: the matrix product over the last two dimensions, the leading ones
\* broadcast.
MatMul(a, b) ==
    LET n == Len(a.size)
        size == [i \in 1..n |->
                    IF i = n THEN b.size[n]
                    ELSE IF i = n - 1 THEN a.size[n - 1]
                    ELSE IF a.size[i] = 1 THEN b.size[i] ELSE a.size[i]]
    IN  TensorOf(size, [idx \in Indices(size) |->
            QSum([k \in 1..a.size[n] |->
                    QMul(At(a, Clip([idx EXCEPT ![n] = k - 1], a.size)),
                         At(b, Clip([idx EXCEPT ![n - 1] = k - 1], b.size)))])])

\* torch.zeros(size).
Zeros(size) == TensorOf(size, [idx \in Indices(size) |-> QInt(0)])

(***************************************************************************)
(* index_to_one_hot                                                        *)
(***************************************************************************)
MaxIndexLen == 2
MaxClasses == 3

\* torch.eye(n): the n x n identity matrix, as a sequence of rows.
Eye(n) == [i \in 1..n |-> [j \in 1..n |-> IF i = j THEN 1 ELSE 0]]

index_select_dim1(m, index) ==
    [i \in 1..Len(m) |-> [k \in 1..Len(index) |-> m[i][index[k] + 1]]]

\* m.index_select(dim=0, index): row index[k] (0-based) of m, for each k.
index_select(m, index) == [k \in 1..Len(index) |-> m[index[k] + 1]]

\* index_select raises on an index outside 0..n-1.
IndexInRange(index, n) == \A k \in 1..Len(index) : index[k] \in 0..(n - 1)

index_to_one_hot(index_tensor, num_classes) ==
    LET index == [k \in 1..Len(index_tensor) |-> Long(index_tensor[k])]
    IN  IF IndexInRange(index, num_classes)
        THEN [raised |-> "none", value |-> index_select(Eye(num_classes), index)]
        ELSE [raised |-> "IndexError", value |-> <<>>]

\* The entries an index tensor is drawn from: the class indices, one index
\* on each side of the range, and two values that are not integers.
OneHotEntries ==
    {QInt(k) : k \in -1..MaxClasses} \cup {Q(1, 2), Q(3, 2)}

SeqsUpTo(S, n) == UNION {[1..k -> S] : k \in 0..n}

OneHotInit ==
    /\ oh_pc = "start"
    /\ oh_classes \in 1..MaxClasses
    /\ oh_index \in SeqsUpTo(OneHotEntries, MaxIndexLen)
    /\ oh_out = [raised |-> "none", value |-> <<>>]
    /\ SquashOff /\ SoftmaxOff /\ RouteOff /\ LossOff /\ ScriptOff

OneHotCall ==
    /\ oh_pc = "start"
    /\ oh_out' = index_to_one_hot(oh_index, oh_classes)
    /\ oh_pc' = "returned"
    /\ UNCHANGED <<oh_index, oh_classes, oh_others>>

OneHotNext == OneHotCall

SpecOneHot == OneHotInit /\ [][OneHotNext]_vars

\* The indices of the claim: integers in 0..num_classes-1.
IsIndex(a, n) == a[2] = 1 /\ a[1] \in 0..(n - 1)

VecDim == 2
MaxCoord == 4
MaxDen == 3

\* squash_vector(tensor, dim=-1).
squash_vector(tensor) ==
    LET dim == Len(tensor.size) - 1
        squared_norm == SumDim(Square(tensor), dim)
        scale == Div(squared_norm, AddScalar(QInt(1), squared_norm))
    IN  Div(Mul(scale, tensor), Sqrt(squared_norm))

\* The squared length of a vector (a sequence of entries).
SquaredNorm(v) == QSum([i \in 1..Len(v) |-> QMul(v[i], v[i])])

IsSquare(n) == \E r \in 0..n : r * r = n

\* Integer vectors of integer length, the zero vector among them.
GridVectors ==
    {v \in [1..VecDim -> -MaxCoord..MaxCoord] :
        IsSquare(SumInts([i \in 1..VecDim |-> v[i] * v[i]]))}

Vector(v) == [size |-> <<Len(v)>>, stride |-> <<1>>, storage |-> v]

\* The vectors squash_vector is applied to: grid vectors scaled by 1/d.
SquashInputs ==
    {Vector([i \in 1..VecDim |-> Q(v[i], d)]) : v \in GridVectors, d \in 1..MaxDen}

SquashInit ==
    /\ sq_pc = "start"
    /\ sq_tensor \in SquashInputs
    /\ sq_out = <<>>
    /\ OneHotOff /\ SoftmaxOff /\ RouteOff /\ LossOff /\ ScriptOff

SquashCall ==
    /\ sq_pc = "start"
    /\ sq_out' = squash_vector(sq_tensor)
    /\ sq_pc' = "returned"
    /\ UNCHANGED <<sq_tensor, sq_others>>

SquashNext == SquashCall

SpecSquash == SquashInit /\ [][SquashNext]_vars

Defined(v) == \A i \in 1..Len(v) : ~IsNaN(v[i])

Dot(u, v) == QSum([i \in 1..Len(u) |-> QMul(u[i], v[i])])

\* r is a non-negative multiple of v (a positive one when v is not zero).
SameDirection(r, v) ==
    /\ \A i, j \in 1..Len(v) : QMul(r[i], v[j]) = QMul(r[j], v[i])
    /\ IF SquaredNorm(v) = QInt(0) THEN SquaredNorm(r) = QInt(0)
                                   ELSE QLess(QInt(0), Dot(r, v))

\* |r| = |v|^2 / (1 + |v|^2), stated on the squares of both sides.
SquashedLength(r, v) ==
    LET n2 == SquaredNorm(v)
        len == QDiv(n2, QAdd(QInt(1), n2))
    IN  SquaredNorm(r) = QMul(len, len)

\* r is the squash of v, given the squashes of the vectors of W.
SquashLaw(r, v, W) ==
    /\ Defined(r)
    /\ SameDirection(r, v)
    /\ SquashedLength(r, v)
    /\ QLess(SquaredNorm(r), QInt(1))
    /\ QLess(QInt(0), SquaredNorm(v)) => QLess(SquaredNorm(r), SquaredNorm(v))
    /\ QLeq(SquaredNorm(r), QMul(SquaredNorm(v), SquaredNorm(v)))
    /\ \A w \in W :
          QLess(SquaredNorm(w.storage), SquaredNorm(v))
              => QLess(SquaredNorm(squash_vector(w).storage), SquaredNorm(r))

NonZeroInputs == {w \in SquashInputs : SquaredNorm(w.storage) # QInt(0)}

\* C3: for every input vector, the all-zero vector included, the result of
\* squash_vector is defined, points in the direction of the input and has
\* length |v|^2 / (1 + |v|^2): below 1, below |v| when |v| > 0, at most
\* |v|^2 (close to 0 for short vectors) and increasing with |v|.
C3_Squash ==
    sq_pc = "returned" => SquashLaw(sq_out.storage, sq_tensor.storage, NonZeroInputs)

\* What squash_vector does on the vectors that are not zero.
SquashNonZero ==
    (sq_pc = "returned" /\ sq_tensor \in NonZeroInputs)
        => SquashLaw(sq_out.storage, sq_tensor.storage, NonZeroInputs)

(***************************************************************************)
(* F.softmax.  e^x has no rational value.  The model keeps of the softmax  *)
(* of a row what exact arithmetic can state: the entries are positive, sum *)
(* to 1 and are ordered as the inputs are (equal inputs give equal         *)
(* entries).  The weight that stands for e^x is the rank of x in its row.  *)
(***************************************************************************)
Rank(row, j) == 1 + Cardinality({i \in 1..Len(row) : QLess(row[i], row[j])})

\* The softmax of one row of entries.
SoftmaxRow(row) ==
    IF \E j \in 1..Len(row) : IsNaN(row[j])
    THEN [j \in 1..Len(row) |-> NaN]
    ELSE LET total == SumInts([j \in 1..Len(row) |-> Rank(row, j)])
         IN  [j \in 1..Len(row) |-> Q(Rank(row, j), total)]

\* F.softmax(t) of a contiguous 2-D tensor: over dimension 1, row by row.
F_softmax(t) ==
    LET cols == t.size[2]
        Row(r) == [j \in 1..cols |-> t.storage[(r - 1) * cols + j]]
    IN  [size |-> t.size, stride |-> t.stride,
         storage |-> [k \in 1..Numel(t.size) |->
                        SoftmaxRow(Row(1 + ((k - 1) \div cols)))[1 + ((k - 1) % cols)]]]

(***************************************************************************)
(* softmax(input, dim)                                                     *)
(***************************************************************************)
MaxRank == 3
MaxSide == 2
MaxStep == 3
MaxOffset == 3

softmax_view_input_size(input, dim) ==
    LET last == Len(input.size) - 1
        transposed_input == transpose(input, dim, last)
        softmaxed_output ==
            F_softmax(view_rows(contiguous(transposed_input),
                                transposed_input.size[last + 1]))
    IN  transpose(view(softmaxed_output, input.size), dim, last)

softmax(input, dim) ==
    LET last == Len(input.size) - 1
        transposed_input == transpose(input, dim, last)
        softmaxed_output ==
            F_softmax(view_rows(contiguous(transposed_input),
                                transposed_input.size[last + 1]))
    IN  transpose(view(softmaxed_output, transposed_input.size), dim, last)

\* The values the entries of an input tensor are taken from.
EntryValues == <<QInt(0), QInt(1), Q(-1, 2), QInt(2), Q(3, 2), QInt(-2)>>

Shapes == UNION {[1..r -> 1..MaxSide] : r \in 1..MaxRank}

\* A contiguous tensor whose k-th entry is EntryValues[(step * k + offset) mod n].
PatternTensor(size, step, offset) ==
    [size |-> size, stride |-> ContiguousStride(size),
     storage |-> [k \in 1..Numel(size) |->
                    EntryValues[1 + ((step * k + offset) % Len(EntryValues))]]]

SoftmaxInit ==
    /\ sm_pc = "start"
    /\ \E size \in Shapes, step \in 1..MaxStep, offset \in 0..MaxOffset :
          sm_input = PatternTensor(size, step, offset)
    /\ sm_dim \in 0..(Len(sm_input.size) - 1)
    /\ sm_out = <<>>
    /\ OneHotOff /\ SquashOff /\ RouteOff /\ LossOff /\ ScriptOff

SoftmaxCall ==
    /\ sm_pc = "start"
    /\ sm_out' = softmax(sm_input, sm_dim)
    /\ sm_pc' = "returned"
    /\ UNCHANGED <<sm_input, sm_dim, sm_others>>

SoftmaxNext == SoftmaxCall

SpecSoftmax == SoftmaxInit /\ [][SoftmaxNext]_vars

\* C4: the output of softmax(input, dim) has the size of the input, and each
\* entry is the softmax of the input entries that share all of its indices
\* but the one along dim; along dim the entries are positive and sum to 1.
C4_Softmax ==
    sm_pc = "returned" =>
        /\ sm_out.size = sm_input.size
        /\ \A idx \in Indices(sm_input.size) :
              /\ At(sm_out, idx) =
                    SoftmaxRow(Fiber(sm_input, idx, sm_dim))[idx[sm_dim + 1] + 1]
              /\ QLess(QInt(0), At(sm_out, idx))
              /\ QSum(Fiber(sm_out, idx, sm_dim)) = QInt(1)

\* A 2 x 2 x 2 input softmaxed over its middle dimension.
C4_Witness ==
    /\ sm_pc = "returned"
    /\ sm_input.size = <<2, 2, 2>>
    /\ sm_dim = 1
    /\ \E idx \in Indices(sm_input.size) :
          At(sm_out, idx) # At(sm_out, [idx EXCEPT ![2] = 1 - idx[2]])

(***************************************************************************)
(* CapsuleLayer.forward, the routing branch (num_routes # -1)              *)
(***************************************************************************)
MaxCapsules == 2
MaxRoutes == 2
MaxBatch == 1
MaxInChannels == 1
MaxOutChannels == 2
MaxIterations == 3

\* priors = x[None, :, :, None, :] @ self.route_weights[:, None, :, :, :]
Priors(x, route_weights) ==
    MatMul(Unsqueeze(Unsqueeze(x, 0), 3), Unsqueeze(route_weights, 1))

\* probs = softmax(logits, dim=2)
Probs(logits) == softmax(logits, 2)

\* outputs = squash_vector(probs * priors).sum(dim=2, keepdim=True)
Outputs(probs, priors) == SumDim(squash_vector(Mul(probs, priors)), 2)

\* delta_logits = (priors * outputs).sum(dim=-1, keepdim=True)
DeltaLogits(priors, outputs) ==
    SumDim(Mul(priors, outputs), Len(priors.size) - 1)

LastIteration_never(i, num_iterations) == FALSE

\* i == self.num_iterations - 1
LastIteration(i, num_iterations) == i = num_iterations - 1

\* The entries of x and the coefficients of the route weights.  None is zero:
\* what squash_vector does to a zero vector is the subject of SpecSquash.
XValues == <<QInt(1), QInt(-1), QInt(2), Q(1, 2)>>
WValues == <<1, -1, 2>>

\* The weights of route r of capsule c map every input channel onto one axis
\* of the output space, so that every prior has a rational length.
RouteWeights(size, step) ==
    TensorOf(size, [idx \in Indices(size) |->
        IF idx[4] = (idx[1] + idx[2]) % size[4]
        THEN QInt(WValues[1 + ((step * (1 + idx[1] + idx[2] + idx[3])) % Len(WValues))])
        ELSE QInt(0)])

RouteInputs(layer, batch, offset) ==
    [size |-> <<batch, layer.num_routes, layer.in_channels>>,
     stride |-> ContiguousStride(<<batch, layer.num_routes, layer.in_channels>>),
     storage |-> [k \in 1..(batch * layer.num_routes * layer.in_channels) |->
                    XValues[1 + ((k + offset) % Len(XValues))]]]

\* CapsuleLayer.__init__ with num_routes # -1.
Layers ==
    {[num_capsules |-> c, num_routes |-> r, in_channels |-> MaxInChannels,
      out_channels |-> MaxOutChannels, num_iterations |-> n,
      route_weights |-> RouteWeights(<<c, r, MaxInChannels, MaxOutChannels>>, step)] :
        c \in {MaxCapsules}, r \in {MaxRoutes}, n \in 1..MaxIterations,
        step \in 1..MaxStep}

RouteInit ==
    /\ rt_pc = "start"
    /\ rt_layer \in Layers
    /\ \E batch \in {MaxBatch}, offset \in 0..MaxOffset :
          rt_x = RouteInputs(rt_layer, batch, offset)
    /\ rt_priors = <<>> /\ rt_logits = <<>> /\ rt_probs = <<>> /\ rt_outputs = <<>>
    /\ rt_i = 0
    /\ rt_history = [outputs |-> <<>>, deltas |-> <<>>]
    /\ OneHotOff /\ SquashOff /\ SoftmaxOff /\ LossOff /\ ScriptOff

\* priors and the zero logits; the loop starts with i = 0.
RoutePriors ==
    /\ rt_pc = "start"
    /\ rt_priors' = Priors(rt_x, rt_layer.route_weights)
    /\ rt_logits' = Zeros(Priors(rt_x, rt_layer.route_weights).size)
    /\ rt_i' = 0
    /\ rt_pc' = "loop"
    /\ UNCHANGED <<rt_layer, rt_x, rt_probs, rt_outputs, rt_history, rt_others>>

\* The first two statements of an iteration: probs and outputs.
RouteOutputs ==
    /\ rt_pc = "loop"
    /\ rt_i < rt_layer.num_iterations
    /\ rt_probs' = Probs(rt_logits)
    /\ rt_outputs' = Outputs(Probs(rt_logits), rt_priors)
    /\ rt_history' = [rt_history EXCEPT
                        !.outputs = Append(@, Outputs(Probs(rt_logits), rt_priors))]
    /\ rt_pc' = "agreement"
    /\ UNCHANGED <<rt_layer, rt_x, rt_priors, rt_logits, rt_i, rt_others>>

\* The if statement that ends an iteration.
RouteAgreement ==
    /\ rt_pc = "agreement"
    /\ IF ~LastIteration(rt_i, rt_layer.num_iterations)
       THEN /\ rt_logits' = Add(rt_logits, DeltaLogits(rt_priors, rt_outputs))
            /\ rt_history' = [rt_history EXCEPT
                                !.deltas = Append(@, DeltaLogits(rt_priors, rt_outputs))]
       ELSE UNCHANGED <<rt_logits, rt_history>>
    /\ rt_i' = rt_i + 1
    /\ rt_pc' = "loop"
    /\ UNCHANGED <<rt_layer, rt_x, rt_priors, rt_probs, rt_outputs, rt_others>>

\* The loop is exhausted: return outputs.
RouteReturn ==
    /\ rt_pc = "loop"
    /\ rt_i >= rt_layer.num_iterations
    /\ rt_pc' = "returned"
    /\ UNCHANGED <<rt_layer, rt_x, rt_priors, rt_logits, rt_probs, rt_outputs, rt_i,
                   rt_history, rt_others>>

RouteNext == RoutePriors \/ RouteOutputs \/ RouteAgreement \/ RouteReturn

SpecRoute == RouteInit /\ [][RouteNext]_vars

\* The logits after the first k updates.
RECURSIVE LogitsAfter(_, _, _)
LogitsAfter(zero, deltas, k) ==
    IF k = 0 THEN zero ELSE Add(LogitsAfter(zero, deltas, k - 1), deltas[k])

\* The vector of output capsule c for sample b, and the probability-weighted
\* sum of its priors over the routes.
CapsuleVector(t, c, b) == Fiber(t, <<c, b, 0, 0, 0>>, 4)

WeightedSum(probs, priors, c, b) ==
    CapsuleVector(SumDim(Mul(probs, priors), 2), c, b)

\* C5: in every routing iteration the output of each (output capsule, batch
\* sample) is the squash of the probability-weighted sum of the priors over
\* the routes, so every capsule vector has a length below 1.
C5_SquashOfSum ==
    rt_pc \in {"agreement", "returned"} =>
        \A c \in 0..(rt_outputs.size[1] - 1), b \in 0..(rt_outputs.size[2] - 1) :
            LET out == CapsuleVector(rt_outputs, c, b)
                sum == WeightedSum(rt_probs, rt_priors, c, b)
            IN  /\ Defined(out)
                /\ SameDirection(out, sum)
                /\ SquashedLength(out, sum)
                /\ QLess(SquaredNorm(out), QInt(1))

\* C6: the logits start all zero, so the first probabilities are uniform;
\* with num_iterations = n the outputs are computed n times and the logits
\* updated n - 1 times, each update adding the agreement of the priors with
\* the outputs computed just before it and none following the last outputs;
\* the outputs returned are those of iteration n.
C6_Routing ==
    rt_pc # "start" =>
        LET n == rt_layer.num_iterations
            outs == rt_history.outputs
            deltas == rt_history.deltas
            zero == Zeros(rt_priors.size)
        IN  /\ Len(outs) = (IF rt_pc = "agreement" THEN rt_i + 1 ELSE rt_i)
            /\ Len(deltas) = (IF rt_i < n THEN rt_i ELSE n - 1)
            /\ rt_logits = LogitsAfter(zero, deltas, Len(deltas))
            /\ \A k \in 1..Len(deltas) : deltas[k] = DeltaLogits(rt_priors, outs[k])
            /\ \A k \in 1..Len(outs) :
                  outs[k] = Outputs(Probs(LogitsAfter(zero, deltas, k - 1)), rt_priors)
            /\ (rt_pc = "agreement" /\ rt_i = 0) =>
                  \A idx \in Indices(rt_probs.size) :
                      At(rt_probs, idx) = Q(1, rt_layer.num_routes)
            /\ rt_pc = "returned" =>
                  /\ Len(outs) = n
                  /\ Len(deltas) = n - 1
                  /\ rt_outputs = outs[n]

\* A forward pass of three iterations has returned, and its two updates
\* moved the logits away from zero.
C6_Witness ==
    /\ rt_pc = "returned"
    /\ rt_layer.num_iterations = 3
    /\ rt_layer.num_routes = 2
    /\ Len(rt_history.deltas) = 2
    /\ rt_logits # Zeros(rt_priors.size)
    /\ rt_history.outputs[3] # rt_history.outputs[1]

(***************************************************************************)
(* MarginLoss.forward.  The memory maps the name of a buffer to the tensor *)
(* it holds: the four arguments, and the temporaries the call allocates.   *)
(***************************************************************************)
MaxPixels == 2

Store(mem, name, t) ==
    [n \in DOMAIN mem \cup {name} |-> IF n = name THEN t ELSE mem[n]]

\* F.relu(mem[name], inplace=True): the buffer itself is overwritten.
relu_(mem, name) == [mem EXCEPT ![name] = Relu(mem[name])]

\* Tensor.sum(): the sum of all entries.
SumAll(t) == QSum(contiguous(t).storage)

\* nn.MSELoss(size_average=False)(input, target): the sum of the squared
\* differences, entry by entry in storage order.
MSELoss(input, target) ==
    QSum([k \in 1..Numel(input.size) |->
            LET d == QSub(contiguous(input).storage[k], contiguous(target).storage[k])
            IN  QMul(d, d)])

forward_in_place(mem) ==
    LET m1 == relu_(Store(mem, "classes",
                          ScalarSub(Q(9, 10), mem["classes"])), "classes")
        left == Square(m1["classes"])
        m2 == relu_(Store(m1, "classes",
                          SubScalar(m1["classes"], Q(1, 10))), "classes")
        right == Square(m2["classes"])
        margin_loss ==
            SumAll(Add(
                         Mul(m2["labels"], left),
                         Mul(
                               MulScalar(Q(1, 2), ScalarSub(QInt(1), m2["labels"])),
                               right)))
        reconstruction_loss == MSELoss(m2["reconstructions"], m2["images"])
    IN  [mem |-> m2,
         value |-> QDiv(QAdd(margin_loss, QMul(Q(1, 2000), reconstruction_loss)),
                        QInt(m2["images"].size[1]))]

\* MarginLoss.forward(images, labels, classes, reconstructions): the memory
\* after the call and the value returned.
MarginLoss_forward(mem) ==
    LET m1 == relu_(Store(mem, "0.9 - classes",
                          ScalarSub(Q(9, 10), mem["classes"])),
                    "0.9 - classes")
        left == Square(m1["0.9 - classes"])
        m2 == relu_(Store(m1, "classes - 0.1",
                          SubScalar(m1["classes"], Q(1, 10))),
                    "classes - 0.1")
        right == Square(m2["classes - 0.1"])
        margin_loss ==
            SumAll(Add(
                         Mul(m2["labels"], left),
                         Mul(
                               MulScalar(Q(1, 2), ScalarSub(QInt(1), m2["labels"])),
                               right)))
        reconstruction_loss == MSELoss(m2["reconstructions"], m2["images"])
    IN  [mem |-> m2,
         value |-> QDiv(QAdd(margin_loss, QMul(Q(1, 2000), reconstruction_loss)),
                        QInt(m2["images"].size[1]))]

ArgNames == {"images", "labels", "classes", "reconstructions"}

\* The values of class scores, pixels and reconstructed pixels.
ScoreValues == <<Q(9, 10), Q(1, 10), QInt(0), QInt(1), Q(1, 2), Q(6, 5)>>
PixelValues == <<QInt(0), QInt(1), Q(1, 2)>>

Pattern(values, size, step, offset) ==
    [size |-> size, stride |-> ContiguousStride(size),
     storage |-> [k \in 1..Numel(size) |->
                    values[1 + ((step * k + offset) % Len(values))]]]

\* The one-hot rows of index_to_one_hot, as a tensor of rationals.
OneHotTensor(target, num_classes) ==
    TensorOf(<<Len(target), num_classes>>,
             [idx \in Indices(<<Len(target), num_classes>>) |->
                QInt(index_to_one_hot(target, num_classes).value[idx[1] + 1][idx[2] + 1])])

LossInit ==
    /\ ml_pc = "start"
    /\ \E step \in 1..MaxStep, offset \in 0..MaxOffset, shift \in 0..MaxOffset,
          target \in [1..MaxBatch -> {QInt(k) : k \in 0..(MaxClasses - 1)}] :
          ml_args =
            [images |-> Pattern(PixelValues, <<MaxBatch, 1, 1, MaxPixels>>, 1, shift),
             labels |-> OneHotTensor(target, MaxClasses),
             classes |-> Pattern(ScoreValues, <<MaxBatch, MaxClasses>>, step, offset),
             reconstructions |-> Pattern(PixelValues, <<MaxBatch, MaxPixels>>, step, 0)]
    /\ ml_mem = ml_args
    /\ ml_loss = <<>>
    /\ OneHotOff /\ SquashOff /\ SoftmaxOff /\ RouteOff /\ ScriptOff

\* The call; its temporaries are dropped when it returns.
LossCall ==
    /\ ml_pc = "start"
    /\ ml_loss' = MarginLoss_forward(ml_mem).value
    /\ ml_mem' = [n \in ArgNames |-> MarginLoss_forward(ml_mem).mem[n]]
    /\ ml_pc' = "returned"
    /\ UNCHANGED <<ml_args, ml_others>>

LossNext == LossCall

SpecLoss == LossInit /\ [][LossNext]_vars

\* M of the claim: the sum over samples and classes of
\* labels * max(0, 0.9 - classes)^2 + 0.5 * (1 - labels) * max(0, classes - 0.1)^2.
MarginTerm(label, score) ==
    LET l == QMax(QInt(0), QSub(Q(9, 10), score))
        r == QMax(QInt(0), QSub(score, Q(1, 10)))
    IN  QAdd(QMul(label, QMul(l, l)),
             QMul(QMul(Q(1, 2), QSub(QInt(1), label)), QMul(r, r)))

MarginSum(labels, classes) ==
    QSum([k \in 1..Numel(classes.size) |->
            MarginTerm(labels.storage[k], classes.storage[k])])

\* R of the claim: the sum of the squared differences.
SquaredError(reconstructions, images) ==
    QSum([k \in 1..Numel(images.size) |->
            QMul(QSub(reconstructions.storage[k], images.storage[k]),
                 QSub(reconstructions.storage[k], images.storage[k]))])

\* Every labelled score is at least 0.9 and every other one at most 0.1.
WithinMargins(labels, classes) ==
    \A k \in 1..Numel(classes.size) :
        IF labels.storage[k] = QInt(1) THEN QLeq(Q(9, 10), classes.storage[k])
                                      ELSE QLeq(classes.storage[k], Q(1, 10))

EPOCH == 10
NumClasses == 10
BatchSize == 2
MaxTrainBatches == 2
MaxTestBatches == 2

\* The labels of a batch: sample k has label (step * k + offset) mod 10.
Labels(step, offset) ==
    [k \in 1..BatchSize |-> QInt((step * k + offset) % NumClasses)]

\* The class scores of a batch, each row positive with sum 1: sample k
\* scores 9/10 for class (k + shift) mod 10.
ClassScores(shift) ==
    TensorOf(<<BatchSize, NumClasses>>, [idx \in Indices(<<BatchSize, NumClasses>>) |->
        IF idx[2] = (idx[1] + 1 + shift) % NumClasses
        THEN Q(9, 10) ELSE Q(1, 10 * (NumClasses - 1))])

\* classes.data.max(1, keepdim=True)[1]: the index of the maximum of each row.
ArgMax(classes) ==
    TensorOf(<<classes.size[1], 1>>, [idx \in Indices(<<classes.size[1], 1>>) |->
        QInt(CHOOSE j \in 0..(classes.size[2] - 1) :
                \A i \in 0..(classes.size[2] - 1) :
                    QLeq(At(classes, <<idx[1], i>>), At(classes, <<idx[1], j>>)))])

\* Tensor.view_as(other): raises unless both have as many entries.
view_as(t, other) ==
    IF Numel(t.size) = Numel(other.size)
    THEN [raised |-> "none", value |-> view(contiguous(t), other.size)]
    ELSE [raised |-> "RuntimeError", value |-> <<>>]

\* pred.eq(other).cpu().sum(): the number of entries that agree.
EqSum(pred, other) ==
    Cardinality({k \in 1..Numel(pred.size) :
                    contiguous(pred).storage[k] = contiguous(other).storage[k]})

\* The print of the summary line: len() is called with two arguments, which
\* raises TypeError whatever they are.
PrintSummary(test_loss, correct, size) ==
    [raised |-> "TypeError", line |-> <<>>]

\* The samples of a batch whose predicted class is their label.
Hits(labels, classes) ==
    Cardinality({k \in 1..Len(labels) :
                    At(ArgMax(classes), <<k - 1, 0>>) = labels[k]})

ScriptInit ==
    /\ ts_pc = "train"
    /\ ts_loaders \in [train : 1..MaxTrainBatches, test : 1..MaxTestBatches]
    /\ ts_e = 0
    /\ ts_idx = 0
    /\ ts_target = <<>>
    /\ ts_classes = <<>>
    /\ ts_correct = 0
    /\ ts_test_loss = "unbound"
    /\ ts_out = <<>>
    /\ ts_raised = "none"
    /\ ts_truth = <<>>
    /\ OneHotOff /\ SquashOff /\ SoftmaxOff /\ RouteOff /\ LossOff

\* One iteration of the training loop; after the last one the test loop starts.
TrainBatch ==
    /\ ts_pc = "train"
    /\ \E step \in 1..MaxStep, offset \in 0..MaxOffset, shift \in 0..MaxOffset :
          /\ ts_target' = OneHotTensor(Labels(step, offset), NumClasses)
          /\ ts_classes' = ClassScores(shift)
    /\ ts_out' = Append(ts_out, [kind |-> "Iter", idx |-> ts_idx])
    /\ ts_correct' = 0
    /\ ts_test_loss' = "0"
    /\ IF ts_idx + 1 < ts_loaders.train
       THEN /\ ts_idx' = ts_idx + 1
            /\ UNCHANGED <<ts_pc, ts_truth>>
       ELSE /\ ts_idx' = 0
            /\ ts_pc' = "test"
            /\ ts_truth' = Append(ts_truth, 0)
    /\ UNCHANGED <<ts_loaders, ts_e, ts_raised, ts_others>>

\* One iteration of the test loop; after the last one the summary is printed
\* and the next epoch starts.
TestBatch ==
    /\ ts_pc = "test"
    /\ \E step \in 1..MaxStep, offset \in 0..MaxOffset, shift \in 0..MaxOffset :
          LET labels == Labels(step, offset)
              target == OneHotTensor(labels, NumClasses)
              classes == ClassScores(shift)
              pred == ArgMax(classes)
              viewed == view_as(target, pred)
              summary == PrintSummary("Variable", ts_correct,
                                      ts_loaders.test * BatchSize)
          IN  /\ ts_target' = target
              /\ ts_classes' = classes
              /\ ts_test_loss' = "Variable"
              /\ ts_truth' = [ts_truth EXCEPT ![Len(ts_truth)] = @ + Hits(labels, classes)]
              /\ IF viewed.raised # "none"
                 THEN /\ ts_raised' = viewed.raised
                      /\ ts_pc' = "done"
                      /\ UNCHANGED <<ts_correct, ts_idx, ts_e, ts_out>>
                 ELSE /\ ts_correct' = ts_correct + EqSum(pred, viewed.value)
                      /\ IF ts_idx + 1 < ts_loaders.test
                         THEN /\ ts_idx' = ts_idx + 1
                              /\ UNCHANGED <<ts_pc, ts_e, ts_out, ts_raised>>
                         ELSE IF summary.raised # "none"
                         THEN /\ ts_raised' = summary.raised
                              /\ ts_pc' = "done"
                              /\ UNCHANGED <<ts_idx, ts_e, ts_out>>
                         ELSE /\ ts_out' = Append(ts_out, summary.line)
                              /\ ts_e' = ts_e + 1
                              /\ ts_idx' = 0
                              /\ ts_pc' = IF ts_e + 1 < EPOCH THEN "train" ELSE "done"
                              /\ UNCHANGED ts_raised
    /\ UNCHANGED <<ts_loaders, ts_others>>

Next == TrainBatch \/ TestBatch

Spec == ScriptInit /\ [][Next]_vars

Lines(kind) == {k \in 1..Len(ts_out) : ts_out[k].kind = kind}

\* C1: the script runs to its end without an exception, having printed one
\* 'Iter' line per training batch of each of the 10 epochs and 10 'Test Set'
\* summary lines.
C1_RunsToCompletion ==
    ts_pc = "done" =>
        /\ ts_raised = "none"
        /\ Cardinality(Lines("Iter")) = EPOCH * ts_loaders.train
        /\ Cardinality(Lines("Test Set")) = EPOCH

\* C8: the count printed for an epoch is the number of samples of its test
\* pass whose predicted class is their label: when the script has ended,
\* every test pass begun has its summary line, with that count; and correct
\* stays between 0 and the size of the test dataset.
C8_Accuracy ==
    /\ ts_correct \in 0..(ts_loaders.test * BatchSize)
    /\ ts_pc = "done" =>
          /\ Cardinality(Lines("Test Set")) = Len(ts_truth)
          /\ \A k \in Lines("Test Set") :
                ts_out[k].correct = ts_truth[Cardinality({j \in Lines("Test Set") : j <= k})]

====
